---- MODULE Spec2Model ----
(***************************************************************************)
(* Access resolution of drive/api/permissions.py: the share-grant lookups  *)
(* (get_user_access, user_group_entity_access, get_general_access), the    *)
(* gate in front of an entity's details (get_entity_with_permissions) and  *)
(* the two share listings (get_shared_by_me, get_shared_with_me).          *)
(*                                                                         *)
(* The database is the state: the Drive DocShare rows and the is_active    *)
(* flag of every Drive Entity.  Every whitelisted function is one action;  *)
(* it records what it returned (or raised) in `call`.  Rows carry a unique *)
(* name in the database; here the table is the set of its distinct rows,   *)
(* which loses only how often an identical row occurs, and no query below  *)
(* counts rows.  A query that returns "the first row" of several matches   *)
(* (frappe.db.get_value), or an arbitrary row of a GROUP BY group, may     *)
(* return any of them: the order of the rows is not part of the state.     *)
(***************************************************************************)
EXTENDS Naturals, FiniteSets

VARIABLES shares, is_active, call

vars == <<shares, is_active, call>>

\* The most Drive DocShare rows the table holds.
MaxShares == 2

\* SQL NULL / Python None.
Null == "NULL"

Guest == "Guest"
Users == {"u1", "u2"}
Principals == Users \cup {Guest}
Groups == {"g1", "g2"}

\* The User Group Member table: u1 is in g1 and g2, u2 in g2 only.
UserGroupMember ==
    { [name |-> "m1", parent |-> "g1", user |-> "u1"],
      [name |-> "m2", parent |-> "g2", user |-> "u1"],
      [name |-> "m3", parent |-> "g2", user |-> "u2"] }

\* The Drive Entity table: the chain e1 <- e2 <- e3, two folders and a file.
Entities == {"e1", "e2", "e3"}
parent_drive_entity == [e \in Entities |->
    IF e = "e1" THEN Null ELSE IF e = "e2" THEN "e1" ELSE "e2"]
owner == [e \in Entities |-> IF e = "e3" THEN "u2" ELSE "u1"]
is_group == [e \in Entities |-> e # "e3"]

Flags == {0, 1}

\* ---- Drive DocShare rows -------------------------------------------------

UserRow(e, u, r, w, s) ==
    [share_name |-> e, user_doctype |-> "User", user_name |-> u,
     read |-> r, write |-> w, share |-> s, everyone |-> 0, public |-> 0]
GroupRow(e, g, r, w, s) ==
    [share_name |-> e, user_doctype |-> "User Group", user_name |-> g,
     read |-> r, write |-> w, share |-> s, everyone |-> 0, public |-> 0]
EveryoneRow(e, r, w, s) ==
    [share_name |-> e, user_doctype |-> Null, user_name |-> Null,
     read |-> r, write |-> w, share |-> s, everyone |-> 1, public |-> 0]
PublicRow(e, r, w, s) ==
    [share_name |-> e, user_doctype |-> Null, user_name |-> Null,
     read |-> r, write |-> w, share |-> s, everyone |-> 0, public |-> 1]

RowsOn(E, U, G, R, W, S) ==
    { UserRow(e, u, r, w, s) : e \in E, u \in U, r \in R, w \in W, s \in S }
    \cup { GroupRow(e, g, r, w, s) : e \in E, g \in G, r \in R, w \in W, s \in S }
    \cup { EveryoneRow(e, r, w, s) : e \in E, r \in R, w \in W, s \in S }
    \cup { PublicRow(e, r, w, s) : e \in E, r \in R, w \in W, s \in S }

\* The rows the sharing workflow writes in each specification.
ResolveRows == RowsOn({"e3"}, Users, Groups, Flags, Flags, Flags)
GateRows == RowsOn(Entities, {"u1"}, {}, {1}, Flags, {0})
ListRows == RowsOn(Entities, Users, {"g1"}, {1}, {0}, {0})

Max(S) == CHOOSE x \in S : \A y \in S : y <= x

\* fields=["read", "write"]: the two columns a lookup selects.
ReadWrite(r) == [read |-> r.read, write |-> r.write]

\* The literal of line 398.
NoAccess == [read |-> 0, write |-> 0]

\* `return False` of user_group_entity_access, None of frappe.db.get_value.
NoGrant == [none |-> TRUE]

\* ---- user_group_entity_access ---------------------------------------------

\* Lines 422-430: DocShare JOIN User Group Member ON member.parent =
\* share.user_name WHERE share.share_name = entity AND member.user = user.
GroupJoin(e, u) ==
    { <<r, m>> \in shares \X UserGroupMember :
        m.parent = r.user_name /\ r.share_name = e /\ m.user = u }

\* Line 431, GROUP BY member.name: one result row per membership row of the
\* user.  read and write are selected without an aggregate, so when several
\* share rows joined the same membership row the database returns the
\* columns of any one of them.  A grouping is one such choice per group.
GroupedRows(e, u) ==
    LET J == GroupJoin(e, u)
        names == { p[2].name : p \in J }
        of(n) == { p[1] : p \in { q \in J : q[2].name = n } }
    IN  { { pick[n] : n \in names } :
            pick \in { f \in [names -> shares] : \A n \in names : f[n] \in of(n) } }

\* Lines 433-438: what user_group_entity_access may return, one value per
\* grouping: False without rows, else the max of read and of write.
UserGroupEntityAccess(e, u) ==
    { IF result = {}
        THEN NoGrant
        ELSE [read |-> Max({ d.read : d \in result }),
              write |-> Max({ d.write : d \in result })] :
        result \in GroupedRows(e, u) }

\* ---- get_user_access -------------------------------------------------------

\* Lines 357-367: the rows of the direct lookup.
DirectRows(e, u) ==
    { r \in shares : r.share_name = e /\ r.user_doctype = "User" /\ r.user_name = u }

\* Lines 373-378.
EveryoneRows(e) == { r \in shares : r.share_name = e /\ r.everyone = 1 }

\* Lines 381-386 and 390-395.
PublicRows(e) == { r \in shares : r.share_name = e /\ r.public = 1 }

\* frappe.db.get_value(..., ["read", "write"], as_dict=1): the two columns
\* of the first matching row, None without one.
GetValue(rows) == IF rows = {} THEN {NoGrant} ELSE { ReadWrite(r) : r \in rows }

\* Lines 373-388 and 398: the lookups after the group lookup.
BroadcastAccess(e) ==
    IF EveryoneRows(e) # {} THEN GetValue(EveryoneRows(e))
    ELSE IF PublicRows(e) # {} THEN GetValue(PublicRows(e))
    ELSE {NoAccess}

\* GuestAccess with the everyone grant consulted for Guest as well.
GuestAccess_Broadcast(e) == BroadcastAccess(e)

\* Lines 389-398: the Guest branch.
GuestAccess(e) ==
    IF PublicRows(e) # {} THEN GetValue(PublicRows(e)) ELSE {NoAccess}

\* GetUserAccess with the group decision consulted before the direct row.
GetUserAccess_GroupFirst(e, u) ==
    IF u # Guest
    THEN UNION { IF g # NoGrant THEN {g}
                 ELSE IF DirectRows(e, u) # {} THEN GetValue(DirectRows(e, u))
                 ELSE BroadcastAccess(e) :
                   g \in UserGroupEntityAccess(e, u) }
    ELSE GuestAccess(e)

\* GetUserAccess with an all-zero group decision taken for "no decision".
GetUserAccess_FalsyGroup(e, u) ==
    IF u # Guest
    THEN IF DirectRows(e, u) # {}
         THEN GetValue(DirectRows(e, u))
         ELSE UNION { IF g # NoGrant /\ g # NoAccess THEN {g} ELSE BroadcastAccess(e) :
                        g \in UserGroupEntityAccess(e, u) }
    ELSE GuestAccess(e)

\* Lines 356-398: what get_user_access may return for session user u.  A
\* returned dict with keys is truthy whatever its values, False and None
\* are not.
GetUserAccess(e, u) ==
    IF u # Guest
    THEN IF DirectRows(e, u) # {}
         THEN GetValue(DirectRows(e, u))
         ELSE UNION { IF g # NoGrant THEN {g} ELSE BroadcastAccess(e) :
                        g \in UserGroupEntityAccess(e, u) }
    ELSE GuestAccess(e)

\* Lines 334-343: the everyone and public rows of the entity.
GetGeneralAccess(e) ==
    { r \in shares : r.share_name = e /\ (r.everyone = 1 \/ r.public = 1) }

\* ---- the database ----------------------------------------------------------

NoCall == [op |-> "none"]

Init ==
    /\ shares = {}
    /\ is_active = [e \in Entities |-> TRUE]
    /\ call = NoCall

\* The sharing workflow writes a row.
AddShare(Rows) ==
    /\ Cardinality(shares) < MaxShares
    /\ \E r \in Rows \ shares : shares' = shares \cup {r}
    /\ call' = NoCall
    /\ UNCHANGED is_active

\* The sharing workflow deletes a row.
RemoveShare ==
    /\ \E r \in shares : shares' = shares \ {r}
    /\ call' = NoCall
    /\ UNCHANGED is_active

\* ---- the calls of the resolver ---------------------------------------------

CallGetUserAccess ==
    \E u \in Principals, e \in Entities :
        \E ret \in GetUserAccess(e, u) :
            /\ call' = [op |-> "get_user_access", user |-> u, entity |-> e, ret |-> ret]
            /\ UNCHANGED <<shares, is_active>>

CallUserGroupEntityAccess ==
    \E u \in Users, e \in Entities :
        \E ret \in UserGroupEntityAccess(e, u) :
            /\ call' = [op |-> "user_group_entity_access", user |-> u, entity |-> e,
                        ret |-> ret]
            /\ UNCHANGED <<shares, is_active>>

CallGetGeneralAccess ==
    \E e \in Entities :
        /\ call' = [op |-> "get_general_access", entity |-> e,
                    ret |-> GetGeneralAccess(e)]
        /\ UNCHANGED <<shares, is_active>>

Next ==
    \/ AddShare(ResolveRows)
    \/ RemoveShare
    \/ CallGetUserAccess
    \/ CallUserGroupEntityAccess
    \/ CallGetGeneralAccess

Spec == Init /\ [][Next]_vars

\* ---- get_entity_with_permissions -----------------------------------------

\* The entity store trashes or restores an entity.
SetActive ==
    /\ \E e \in Entities : is_active' = [is_active EXCEPT ![e] = ~is_active[e]]
    /\ call' = NoCall
    /\ UNCHANGED shares

\* What frappe.has_permission holds for the session user on the entity when
\* the call is made: nothing, read, or read and write.
Levels == {"none", "read", "write"}

\* frappe.has_permission(doctype, doc, ptype, user).
HasPermission(level, ptype) ==
    IF ptype = "read" THEN level \in {"read", "write"} ELSE level = "write"

\* Guest holds no permission of its own on a Drive Entity: an anonymous
\* caller gets in through the everyone and public rows of line 278 only.
LevelsOf(u) == IF u = Guest THEN {"none"} ELSE Levels

\* get_ancestors_of("Drive Entity", entity): the chain of parents.
RECURSIVE Ancestors(_)
Ancestors(e) ==
    IF parent_drive_entity[e] = Null
    THEN {}
    ELSE {parent_drive_entity[e]} \cup Ancestors(parent_drive_entity[e])

\* Permitted with ptype="write" asked of frappe.has_permission.
Permitted_Write(e, level) ==
    GetGeneralAccess(e) # {} \/ HasPermission(level, "write")

\* Lines 278-282: the gate lets the call pass.
Permitted(e, level) ==
    GetGeneralAccess(e) # {} \/ HasPermission(level, "read")

\* AncestorFlag that looks at the parent only.
AncestorFlag_ParentOnly(e) ==
    parent_drive_entity[e] # Null /\ ~is_active[parent_drive_entity[e]]

\* Lines 286-291: flag, set by the first inactive ancestor.
AncestorFlag(e) == \E z \in Ancestors(e) : ~is_active[z]

\* Lines 296-298: whether mark_as_viewed runs once the ancestors passed.
MarksViewed(e, u) == u # Guest /\ ~is_group[e]

\* The rights of an entity returned without get_user_access (lines 303-307).
NoRights == [none |-> TRUE]

\* Lines 278-313, in the order of the code: how the call ends, whether
\* mark_as_viewed ran, and the rights merged into the returned entity.
GetEntityWithPermissions(e, u, level) ==
    IF ~Permitted(e, level)
    THEN {[outcome |-> "Denied", viewed |-> FALSE, rights |-> NoRights]}
    ELSE IF AncestorFlag(e)
    THEN {[outcome |-> "AncestorDeleted", viewed |-> FALSE, rights |-> NoRights]}
    ELSE IF ~is_active[e]
    THEN {[outcome |-> "Trashed", viewed |-> MarksViewed(e, u), rights |-> NoRights]}
    ELSE IF owner[e] = u
    THEN {[outcome |-> "ok", viewed |-> MarksViewed(e, u), rights |-> NoRights]}
    ELSE { [outcome |-> "ok", viewed |-> MarksViewed(e, u), rights |-> a] :
             a \in GetUserAccess(e, u) }

CallGetEntityWithPermissions ==
    \E u \in Principals, e \in Entities :
        \E level \in LevelsOf(u) :
            \E res \in GetEntityWithPermissions(e, u, level) :
                /\ call' = [op |-> "get_entity_with_permissions", user |-> u,
                            entity |-> e, level |-> level, outcome |-> res.outcome,
                            viewed |-> res.viewed, rights |-> res.rights]
                /\ UNCHANGED <<shares, is_active>>

NextGate ==
    \/ AddShare(GateRows)
    \/ RemoveShare
    \/ SetActive
    \/ CallGetEntityWithPermissions

SpecGate == Init /\ [][NextGate]_vars

\* ---- get_shared_by_me, get_shared_with_me ----------------------------------

\* column != value in SQL: NULL is never unequal to anything.
SqlNotEqual(col, v) == col # Null /\ col # v

\* Lines 106-130: the entities of the query of get_shared_by_me, one row
\* each (GROUP BY name).  The share rows join only entities the session
\* user owns, and the WHERE clause drops the entities left without a row.
SharedByMeQuery(u) ==
    { e \in Entities :
        /\ is_active[e]
        /\ \E r \in shares :
            /\ r.share_name = e /\ owner[e] = u
            /\ (SqlNotEqual(r.user_name, u) \/ r.everyone = 1 \/ r.public = 1) }

\* GetSharedByMe without the filter of lines 138-143.
GetSharedByMe_NoFilter(u, get_all) == SharedByMeQuery(u)

\* Lines 131-143.  The result is the set of the entities of its rows: the
\* order an ORDER BY gives them is not kept.
GetSharedByMe(u, get_all) ==
    IF get_all
    THEN SharedByMeQuery(u)
    ELSE LET names == SharedByMeQuery(u)
         IN  { x \in names : parent_drive_entity[x] \notin names }

\* Lines 182-202: the entities of the query of get_shared_with_me.
SharedWithMeQuery(u) ==
    { e \in Entities :
        /\ is_active[e]
        /\ \E r \in shares :
            /\ r.share_name = e
            /\ \/ \E m \in UserGroupMember : m.parent = r.user_name /\ m.user = u
               \/ r.user_name = u
               \/ r.everyone = 1 }

\* Lines 203-215.
GetSharedWithMe(u, get_all) ==
    IF get_all
    THEN SharedWithMeQuery(u)
    ELSE LET names == SharedWithMeQuery(u)
         IN  { x \in names : parent_drive_entity[x] \notin names /\ owner[x] # u }

CallGetSharedByMe ==
    \E u \in Users, get_all \in BOOLEAN :
        /\ call' = [op |-> "get_shared_by_me", user |-> u, get_all |-> get_all,
                    ret |-> GetSharedByMe(u, get_all)]
        /\ UNCHANGED <<shares, is_active>>

CallGetSharedWithMe ==
    \E u \in Users, get_all \in BOOLEAN :
        /\ call' = [op |-> "get_shared_with_me", user |-> u, get_all |-> get_all,
                    ret |-> GetSharedWithMe(u, get_all)]
        /\ UNCHANGED <<shares, is_active>>

NextList ==
    \/ AddShare(ListRows)
    \/ RemoveShare
    \/ SetActive
    \/ CallGetSharedByMe
    \/ CallGetSharedWithMe

SpecList == Init /\ [][NextList]_vars

\* ---- the claims -------------------------------------------------------------

IsCall(op) == call.op = op

\* The share rows on entity e that target a group user u is a member of.
GroupRowsOf(e, u) ==
    { r \in shares : r.share_name = e
        /\ \E m \in UserGroupMember : m.user = u /\ m.parent = r.user_name }

\* C1 (as claimed): get_user_access returns read, write and share all true
\* to the owner of the entity, whatever rows exist.
C1_OwnerFullAccess ==
    (IsCall("get_user_access") /\ owner[call.entity] = call.user)
        => call.ret = [read |-> 1, write |-> 1, share |-> 1]

\* C2: for an authenticated user with a direct row on the entity,
\* get_user_access returns the read and write of a direct row of that user,
\* whatever group, everyone and public rows exist.
C2_DirectGrantDecides ==
    (IsCall("get_user_access") /\ call.user # Guest
        /\ \E r \in shares : r.share_name = call.entity
              /\ r.user_doctype = "User" /\ r.user_name = call.user)
        => \E r \in shares :
              /\ r.share_name = call.entity
              /\ r.user_doctype = "User" /\ r.user_name = call.user
              /\ call.ret = [read |-> r.read, write |-> r.write]

\* C2's case: a direct row without write beside a group row with write, and
\* the call returned write 0.
C2_Witness ==
    /\ IsCall("get_user_access") /\ call.user = "u1" /\ call.entity = "e3"
    /\ UserRow("e3", "u1", 1, 0, 0) \in shares
    /\ GroupRow("e3", "g1", 1, 1, 0) \in shares
    /\ call.ret = [read |-> 1, write |-> 0]

\* C3 (as claimed): user_group_entity_access returns "no grant" without a
\* row for a group of the user, and else the OR of read and the OR of write
\* over all the rows for groups of the user.
C3_GroupUnion ==
    IsCall("user_group_entity_access")
        => LET G == GroupRowsOf(call.entity, call.user)
           IN  IF G = {}
               THEN call.ret = NoGrant
               ELSE call.ret = [read |-> Max({ r.read : r \in G }),
                                write |-> Max({ r.write : r \in G })]

\* C4: for Guest, get_user_access returns the read and write of a public
\* row of the entity when one exists and read 0, write 0 otherwise, and
\* never a share right.
C4_GuestPublicOnly ==
    (IsCall("get_user_access") /\ call.user = Guest)
        => /\ IF \E r \in shares : r.share_name = call.entity /\ r.public = 1
              THEN \E r \in shares :
                      /\ r.share_name = call.entity /\ r.public = 1
                      /\ call.ret.read = r.read /\ call.ret.write = r.write
              ELSE call.ret.read = 0 /\ call.ret.write = 0
           /\ ("share" \in DOMAIN call.ret => call.ret.share = 0)

\* C4's case: Guest asked about an entity with a public row that gives read
\* only and an everyone row that gives everything.
C4_Witness ==
    /\ IsCall("get_user_access") /\ call.user = Guest /\ call.entity = "e3"
    /\ PublicRow("e3", 1, 0, 1) \in shares
    /\ EveryoneRow("e3", 1, 1, 1) \in shares
    /\ call.ret = [read |-> 1, write |-> 0]

\* C10: for an authenticated user without a direct row, get_user_access
\* answers from the group rows when there is one, else from an everyone row,
\* else from a public row, else with read 0 and write 0.
C10_SourceOrder ==
    (IsCall("get_user_access") /\ call.user # Guest
        /\ ~ \E r \in shares : r.share_name = call.entity
                /\ r.user_doctype = "User" /\ r.user_name = call.user)
        => LET e == call.entity
               G == GroupRowsOf(e, call.user)
               E == { r \in shares : r.share_name = e /\ r.everyone = 1 }
               P == { r \in shares : r.share_name = e /\ r.public = 1 }
               From(S) == \E r \in S : call.ret = [read |-> r.read, write |-> r.write]
           IN  IF G # {}
               THEN /\ call.ret.read \in { r.read : r \in G }
                    /\ call.ret.write \in { r.write : r \in G }
                    /\ DOMAIN call.ret = {"read", "write"}
               ELSE IF E # {} THEN From(E)
               ELSE IF P # {} THEN From(P)
               ELSE call.ret = [read |-> 0, write |-> 0]

\* C10's case: an all-zero group row beside an everyone row that gives
\* everything, and the call returned read 0, write 0.
C10_Witness ==
    /\ IsCall("get_user_access") /\ call.user = "u1" /\ call.entity = "e3"
    /\ GroupRow("e3", "g1", 0, 0, 0) \in shares
    /\ EveryoneRow("e3", 1, 1, 1) \in shares
    /\ call.ret = [read |-> 0, write |-> 0]

\* The entity has an inactive ancestor, spelled out for the chain e1 <- e2 <- e3.
HasInactiveAncestor(e) ==
    \/ e = "e2" /\ ~is_active["e1"]
    \/ e = "e3" /\ (~is_active["e2"] \/ ~is_active["e1"])

\* C5 (as claimed): with an inactive ancestor get_entity_with_permissions
\* ends in AncestorDeleted for every caller.
C5_AlwaysAncestorDeleted ==
    (IsCall("get_entity_with_permissions") /\ HasInactiveAncestor(call.entity))
        => call.outcome = "AncestorDeleted"

\* C5 (amended): with an inactive ancestor the call never succeeds and never
\* ends in Trashed; it ends in AncestorDeleted for every caller the
\* permission check lets pass, and in Denied for the others.
C5_AncestorDeletedIfPermitted ==
    (IsCall("get_entity_with_permissions") /\ HasInactiveAncestor(call.entity))
        => LET general == \E r \in shares : r.share_name = call.entity
                             /\ (r.everyone = 1 \/ r.public = 1)
           IN  IF general \/ call.level # "none"
               THEN call.outcome = "AncestorDeleted"
               ELSE call.outcome = "Denied"

\* C5's case: the grandparent of an active file is inactive, the caller has
\* a direct row with write on the file, and the call ended in AncestorDeleted.
C5_Witness ==
    /\ IsCall("get_entity_with_permissions")
    /\ call.entity = "e3" /\ call.user = "u1" /\ call.level = "write"
    /\ is_active = [e \in Entities |-> e # "e1"]
    /\ UserRow("e3", "u1", 1, 1, 0) \in shares
    /\ call.outcome = "AncestorDeleted"

\* C7 (as claimed): without an everyone or public row the call succeeds only
\* for a caller with write permission.
C7_GateNeedsWrite ==
    (IsCall("get_entity_with_permissions") /\ GetGeneralAccess(call.entity) = {}
        /\ call.outcome = "ok")
        => call.level = "write"

\* C7 (amended): without an everyone or public row the call ends in Denied
\* exactly when the caller has no read permission.
C7_GateNeedsRead ==
    (IsCall("get_entity_with_permissions")
        /\ ~ \E r \in shares : r.share_name = call.entity
                /\ (r.everyone = 1 \/ r.public = 1))
        => (call.outcome = "Denied" <=> call.level = "none")

\* C7's case: a caller with read and without write permission, no everyone
\* or public row, and the call succeeded.
C7_Witness ==
    /\ IsCall("get_entity_with_permissions")
    /\ GetGeneralAccess(call.entity) = {}
    /\ call.user = "u1" /\ call.entity = "e3" /\ call.level = "read"
    /\ call.outcome = "ok"

\* C9 (as claimed): mark_as_viewed runs only in calls that succeed, and in a
\* call that succeeds exactly when the caller is not Guest and the entity is
\* not a folder.
C9_ViewedOnlyOnSuccess ==
    IsCall("get_entity_with_permissions")
        => /\ call.viewed => call.outcome = "ok"
           /\ call.outcome = "ok"
                => (call.viewed <=> (call.user # Guest /\ ~is_group[call.entity]))

IsListCall == IsCall("get_shared_by_me") \/ IsCall("get_shared_with_me")

\* C6 (as claimed): in every mode, no returned row has its parent in the
\* same result.
C6_NoChildOfListedParent ==
    IsListCall => \A x \in call.ret : parent_drive_entity[x] \notin call.ret

\* C6 (amended): in the sorted mode (get_all false), no returned row has its
\* parent in the same result.
C6_NoChildOfListedParentSorted ==
    (IsListCall /\ ~call.get_all)
        => \A x \in call.ret : parent_drive_entity[x] \notin call.ret

\* C6's case: a sorted listing whose query held an entity and its parent,
\* and which returned the parent.
C6_Witness ==
    /\ IsCall("get_shared_by_me") /\ ~call.get_all /\ call.user = "u1"
    /\ {"e1", "e2"} \subseteq SharedByMeQuery("u1")
    /\ call.ret = {"e1"}

\* C8 (as claimed): get_shared_with_me returns no entity the session user
\* owns, in either mode.
C8_NoOwnedEntity ==
    IsCall("get_shared_with_me") => \A x \in call.ret : owner[x] # call.user

====
